---- MODULE Spec2Model ----
(***************************************************************************)
(* Symmetry token-swap AMM adapter (jupiter-core/src/amms).                *)
(*                                                                         *)
(* The adapter holds a snapshot (fund_state, token_list, curve_data).      *)
(* update() re-decodes the snapshot from an accounts map, quote() prices a *)
(* swap against it.  Every u64 of the program is modelled as a word of 30  *)
(* bits (TLC integers are 32-bit): wrap-around, truncation and             *)
(* checked-overflow panics are kept, only the width is smaller.            *)
(***************************************************************************)
EXTENDS Integers, Sequences, FiniteSets, TLC

VARIABLES
    overflow_checks,  \* build profile: TRUE = overflow panics (dev), FALSE = wraps (release)
    key,              \* SymmetryTokenSwap.key
    fund_state,       \* SymmetryTokenSwap.fund_state
    token_list,       \* SymmetryTokenSwap.token_list
    curve_data,       \* SymmetryTokenSwap.curve_data
    last              \* the last call made on the adapter and what it returned

vars == <<overflow_checks, key, fund_state, token_list, curve_data, last>>

----------------------------------------------------------------------------
(* Program constants (accounts.rs:4-11).                                   *)

\* capacity of the token catalog; 100 in the source, scaled down
MAX_TOKENS_IN_ASSET_POOL == 4
NUM_TOKENS_IN_FUND == 20
NUM_OF_POINTS_IN_CURVE_DATA == 10
\* 10^12 in the source; scaled down with the word
ONE_USD == 10^3
USE_CURVE_DATA == 1
BPS_DIVIDER == 10000
WEIGHT_MULTIPLIER == 10000
LP_DISABLED == 0

\* the modelled u64 holds 0 .. U64 - 1
U64 == 2^30

----------------------------------------------------------------------------
(* Fixed-point primitives.                                                 *)

\* The u128 product of mul_div does not fit TLC's integers.  WideMulDiv is
\* the exact quotient and remainder of a*b by c (c > 0), by long
\* multiplication on the digits of the smaller factor, in a radix chosen so
\* that no intermediate leaves TLC's integers.  q is the quotient truncated
\* to the word ("as u64"), o tells that the exact quotient did not fit.

\* the largest radix 2^k, k in 1..15, with radix * m within TLC's integers
WideRadix(m) ==
    CHOOSE K \in {2^k : k \in 1..15} :
        K <= 2147483647 \div m /\ (K = 2^15 \/ 2 * K > 2147483647 \div m)

\* One digit of the long multiplication: h is the result for the leading
\* digits, digit the next one.
WideStep(h, digit, K, b, c) ==
    LET t1 == h.r * K
        t2 == digit * (b % c)
        s  == (t1 % c) + (t2 % c)
        c2 == IF s >= c THEN 1 ELSE 0
        m  == digit * (b \div c)
        y1 == (h.q % (U64 \div K)) * K + (m % U64)
        y2 == (y1 % U64) + (t1 \div c) + (t2 \div c) + c2
    IN  [o |-> h.o \/ h.q >= U64 \div K \/ m >= U64 \/ y1 >= U64 \/ y2 >= U64,
         q |-> y2 % U64,
         r |-> s - c2 * c]

RECURSIVE WideMulDiv(_, _, _)
WideMulDiv(a, b, c) ==
    IF a = 0 \/ b = 0 THEN [q |-> 0, r |-> 0, o |-> FALSE]
    ELSE IF a <= 2147483647 \div b
    THEN [q |-> ((a * b) \div c) % U64, r |-> (a * b) % c, o |-> (a * b) \div c >= U64]
    ELSE IF a > b THEN WideMulDiv(b, a, c)
    ELSE LET K == WideRadix(IF c > b \div c THEN c ELSE b \div c)
         IN  WideStep(WideMulDiv(a \div K, b, c), a % K, K, b, c)

\* accounts.rs mul_div / SymmetryTokenSwap::mul_div:
\*   match c { 0 => 0, _ => ((a as u128) * (b as u128) / (c as u128)) as u64 }
mul_div(a, b, c) ==
    IF c = 0 THEN 0 ELSE WideMulDiv(a, b, c).q

\* accounts.rs mul_div (lines 13-18), the copy the decoders call:
\*   match c { 0 => 0, _ => ((a as u128) * (b as u128) / (c as u128)) as u64 }
accounts_mul_div(a, b, c) ==
    IF c = 0 THEN 0 ELSE WideMulDiv(a, b, c).q

\* whether mul_div's `as u64` drops high bits of the quotient
Truncates(a, b, c) == c # 0 /\ WideMulDiv(a, b, c).o

\* a * b in u64: the wrapped product and whether it overflowed
WrappingMul(a, b) == WideMulDiv(a, b, 1)

\* u64::pow(10, decimals as u32): wrapped value and overflow flag
RECURSIVE Pow10(_)
Pow10(d) ==
    IF d = 0 THEN [q |-> 1, o |-> FALSE]
    ELSE LET p == Pow10(d - 1)
             m == WrappingMul(p.q, 10)
         IN  [q |-> m.q, o |-> p.o \/ m.o]

amount_to_usd_value(amount, decimals, price) ==
    mul_div(amount, price, Pow10(decimals).q)

usd_value_to_amount(worth, decimals, price) ==
    mul_div(worth, Pow10(decimals).q, price)

\* The first panic of a run of statements: p is the panic so far ("none" when
\* there is none), ovf tells that the next statement overflows its u64, which
\* panics only in a build with overflow checks.
Chk(p, ovf) ==
    IF p # "none" THEN p
    ELSE IF overflow_checks /\ ovf THEN "arithmetic_overflow"
    ELSE "none"

----------------------------------------------------------------------------
(* Curve walkers (symmetry_token_swap.rs:91-204).                          *)

Min(a, b) == IF a < b THEN a ELSE b

\* One iteration of the loop of compute_value_of_sold_token (lines 106-142).
\* s holds the loop's mutable locals, panic its first panic, done the break.
SellStep(s, step, token_settings, target_amount, curve) ==
    LET N == NUM_OF_POINTS_IN_CURVE_DATA
        step_amount == IF step < N THEN curve.amount[step] ELSE s.amount_left
        current_price ==
            IF step < N /\ curve.price[step] < s.current_price
                        /\ token_settings.use_curve_data = USE_CURVE_DATA
            THEN curve.price[step] ELSE s.current_price
        curve_offset == IF step = N THEN 0 ELSE s.curve_offset
    IN
    IF step_amount <= curve_offset
    THEN \* curve_offset -= curve_data.amount[step]; continue
         IF step >= N
         THEN [s EXCEPT !.current_price = current_price,
                        !.curve_offset = curve_offset,
                        !.steps = step + 1,
                        !.panic = "index_out_of_bounds"]
         ELSE [s EXCEPT !.current_price = current_price,
                        !.curve_offset = curve_offset - curve.amount[step],
                        !.steps = step + 1]
    ELSE
    LET amount_in_interval == Min(step_amount - curve_offset, s.amount_left)
        sum == s.current_amount + amount_in_interval
        crossing == s.current_amount < target_amount /\ sum % U64 >= target_amount
        amount_before_tw ==
            IF s.current_amount >= target_amount THEN 0
            ELSE IF crossing
                 THEN (amount_in_interval - ((sum % U64) - target_amount)) % U64
                 ELSE amount_in_interval
        amount_after_tw == amount_in_interval - amount_before_tw
        pow == Pow10(token_settings.decimals)
        value_before_tw == amount_to_usd_value(amount_before_tw, token_settings.decimals, current_price)
        value_after_tw == amount_to_usd_value(amount_after_tw, token_settings.decimals, current_price)
        fees == mul_div(value_before_tw, token_settings.token_swap_fee_before_tw_bps, BPS_DIVIDER)
              + mul_div(value_after_tw, token_settings.token_swap_fee_after_tw_bps, BPS_DIVIDER)
        gross == value_before_tw + value_after_tw
        net == (gross % U64) - (fees % U64)
        output == s.current_output_value + (net % U64)
        ovf == \/ sum >= U64
               \/ pow.o
               \/ fees >= U64 \/ gross >= U64 \/ net < 0 \/ output >= U64
        amount_left == s.amount_left - amount_in_interval
    IN  [current_amount       |-> sum % U64,
         curve_offset         |-> 0,
         current_output_value |-> output % U64,
         amount_left          |-> amount_left,
         current_price        |-> current_price,
         steps                |-> step + 1,
         panic                |-> Chk(s.panic, ovf),
         done                 |-> amount_left = 0]

RECURSIVE SellWalk(_, _, _, _, _)
SellWalk(s, step, token_settings, target_amount, curve) ==
    IF step > NUM_OF_POINTS_IN_CURVE_DATA \/ s.done \/ s.panic # "none" THEN s
    ELSE SellWalk(SellStep(s, step, token_settings, target_amount, curve),
                  step + 1, token_settings, target_amount, curve)

\* compute_value_of_sold_token: the final locals; current_output_value is
\* the value returned when panic = "none".
compute_value_of_sold_token(amount, token_settings, price, start_amount, target_amount, curve) ==
    SellWalk([current_amount       |-> start_amount,
              curve_offset         |-> IF start_amount > target_amount
                                       THEN start_amount - target_amount ELSE 0,
              current_output_value |-> 0,
              amount_left          |-> amount,
              current_price        |-> price.sell_price,
              steps                |-> 0,
              panic                |-> "none",
              done                 |-> FALSE],
             0, token_settings, target_amount, curve)

\* The interval of one iteration of compute_amount_of_bought_token, clipped
\* to the value that is left (lines 174-181); amount0 is step_amount -
\* curve_offset and value0 its value.
BuyInterval(s, token_settings, current_price, amount0, value0) ==
    IF value0 > s.value_left
    THEN [value_in_interval  |-> s.value_left,
          amount_in_interval |-> usd_value_to_amount(s.value_left, token_settings.decimals,
                                                     current_price)]
    ELSE [value_in_interval  |-> value0,
          amount_in_interval |-> amount0]

\* The interval's value before and after the target weight (lines 183-188).
BuySplit(s, token_settings, target_amount, current_price, iv) ==
    LET sum == target_amount + iv.amount_in_interval
        crossing == s.current_amount > target_amount /\ s.current_amount <= sum % U64
        part == amount_to_usd_value(((sum % U64) - s.current_amount) % U64,
                                    token_settings.decimals, current_price)
        value_before_tw ==
            IF s.current_amount <= target_amount THEN 0
            ELSE IF crossing THEN (iv.value_in_interval - part) % U64
                 ELSE iv.value_in_interval
    IN  [value_before_tw |-> value_before_tw,
         value_after_tw  |-> (iv.value_in_interval - value_before_tw) % U64,
         ovf_split       |-> \/ (s.current_amount > target_amount /\ sum >= U64)
                             \/ (crossing /\ iv.value_in_interval < part)
                             \/ iv.value_in_interval < value_before_tw] @@ iv

\* The interval's fees and the amount it buys (lines 190-194).
BuyFees(token_settings, current_price, iv) ==
    LET fees == mul_div(iv.value_before_tw, token_settings.token_swap_fee_before_tw_bps, BPS_DIVIDER)
              + mul_div(iv.value_after_tw, token_settings.token_swap_fee_after_tw_bps, BPS_DIVIDER)
        net == iv.value_in_interval - (fees % U64)
    IN  [amount_bought |-> usd_value_to_amount(net % U64, token_settings.decimals, current_price),
         ovf_fees      |-> fees >= U64 \/ net < 0] @@ iv

\* The locals after the interval is bought (lines 196-200).
BuySettle(s, step, token_settings, current_price, iv) ==
    LET output == s.current_output_amount + iv.amount_bought
        value_left == s.value_left - iv.value_in_interval
        ovf == \/ Pow10(token_settings.decimals).o
               \/ iv.ovf_split \/ iv.ovf_fees \/ output >= U64
    IN  [current_amount        |-> IF iv.amount_bought > s.current_amount THEN 0
                                   ELSE s.current_amount - iv.amount_bought,
         curve_offset          |-> 0,
         current_output_amount |-> output % U64,
         value_left            |-> value_left,
         current_price         |-> current_price,
         steps                 |-> step + 1,
         panic                 |-> Chk(s.panic, ovf),
         done                  |-> value_left = 0]

\* One iteration of the loop of compute_amount_of_bought_token (lines 163-200).
BuyStep(s, step, token_settings, target_amount, curve) ==
    LET N == NUM_OF_POINTS_IN_CURVE_DATA
        dec == token_settings.decimals
        twice == WrappingMul(s.value_left, 2)
        step_amount == IF step < N THEN curve.amount[step]
                       ELSE usd_value_to_amount(twice.q, dec, s.current_price)
        ovf0 == step >= N /\ (twice.o \/ Pow10(dec).o)
        current_price ==
            IF step < N /\ curve.price[step] > s.current_price
                        /\ token_settings.use_curve_data = USE_CURVE_DATA
            THEN curve.price[step] ELSE s.current_price
        curve_offset == IF step = N THEN 0 ELSE s.curve_offset
    IN
    IF Chk(s.panic, ovf0) # "none"
    THEN [s EXCEPT !.steps = step + 1, !.panic = Chk(s.panic, ovf0)]
    ELSE IF step_amount <= curve_offset
    THEN \* curve_offset -= curve_data.amount[step]; continue
         IF step >= N
         THEN [s EXCEPT !.current_price = current_price,
                        !.curve_offset = curve_offset,
                        !.steps = step + 1,
                        !.panic = "index_out_of_bounds"]
         ELSE [s EXCEPT !.current_price = current_price,
                        !.curve_offset = curve_offset - curve.amount[step],
                        !.steps = step + 1]
    ELSE BuySettle(s, step, token_settings, current_price,
            BuyFees(token_settings, current_price,
                BuySplit(s, token_settings, target_amount, current_price,
                    BuyInterval(s, token_settings, current_price,
                        step_amount - curve_offset,
                        amount_to_usd_value(step_amount - curve_offset, dec, current_price)))))

RECURSIVE BuyWalk(_, _, _, _, _)
BuyWalk(s, step, token_settings, target_amount, curve) ==
    IF step > NUM_OF_POINTS_IN_CURVE_DATA \/ s.done \/ s.panic # "none" THEN s
    ELSE BuyWalk(BuyStep(s, step, token_settings, target_amount, curve),
                 step + 1, token_settings, target_amount, curve)

\* compute_amount_of_bought_token: the final locals; current_output_amount
\* is the amount returned when panic = "none".
compute_amount_of_bought_token(value, token_settings, price, start_amount, target_amount, curve) ==
    BuyWalk([current_amount        |-> start_amount,
             curve_offset          |-> IF start_amount < target_amount
                                       THEN target_amount - start_amount ELSE 0,
             current_output_amount |-> 0,
             value_left            |-> value,
             current_price         |-> price.buy_price,
             steps                 |-> 0,
             panic                 |-> "none",
             done                  |-> FALSE],
            0, token_settings, target_amount, curve)

----------------------------------------------------------------------------
(* Account decoders (accounts.rs).  A blob is modelled by its length and   *)
(* the values at the offsets the decoder reads; decoding a blob shorter    *)
(* than the last offset read panics (slice index out of range).            *)

DefaultPubkey == "11111111111111111111111111111111"
CURVE_DATA_ADDRESS == "4QMjSHuM3iS7Fdfi8kZJfHRKoEJSDHEtEwqbChsTcUVK"

FundSlots == 0 .. (NUM_TOKENS_IN_FUND - 1)
TokenIds == 0 .. (MAX_TOKENS_IN_ASSET_POOL - 1)
CurvePoints == 0 .. (NUM_OF_POINTS_IN_CURVE_DATA - 1)

\* FundState::load: the highest offset read is 1040..1048
FundState_load(blob) ==
    IF blob.len < 1048 THEN [panic |-> "decode_error"]
    ELSE [panic |-> "none",
          v |-> [manager             |-> blob.manager,
                 host_pubkey         |-> blob.host_pubkey,
                 num_of_tokens       |-> blob.num_of_tokens,
                 current_comp_token  |-> [i \in FundSlots |-> blob.current_comp_token[i]],
                 current_comp_amount |-> [i \in FundSlots |-> blob.current_comp_amount[i]],
                 target_weight       |-> [i \in FundSlots |-> blob.target_weight[i]],
                 weight_sum          |-> blob.weight_sum,
                 rebalance_threshold |-> blob.rebalance_threshold,
                 lp_offset_threshold |-> blob.lp_offset_threshold]]

ZeroOraclePrice == [sell_price |-> 0, avg_price |-> 0, buy_price |-> 0, oracle_live |-> 0]

DefaultTokenSettings ==
    [token_mint |-> DefaultPubkey, decimals |-> 0, pda_token_account |-> DefaultPubkey,
     oracle_type |-> 0, oracle_account |-> DefaultPubkey, oracle_index |-> 0,
     oracle_confidence_pct |-> 0, fixed_confidence_bps |-> 0,
     token_swap_fee_after_tw_bps |-> 0, token_swap_fee_before_tw_bps |-> 0,
     is_live |-> 0, lp_on |-> 0, use_curve_data |-> 0,
     additional_data |-> [j \in 60 .. 62 |-> 0],
     oracle_price |-> ZeroOraclePrice]

\* TokenList::load: entries below num_tokens come from the blob, the others
\* stay the zero entry; every oracle_price starts as the zero placeholder.
TokenList_load(blob) ==
    [num_tokens |-> blob.num_tokens,
     list |-> [i \in TokenIds |->
                 IF i < blob.num_tokens
                 THEN [blob.entry[i] EXCEPT !.oracle_price = ZeroOraclePrice]
                 ELSE DefaultTokenSettings]]

ZeroTokenPriceData == [amount |-> [j \in CurvePoints |-> 0], price |-> [j \in CurvePoints |-> 0]]

\* CurveData::empty
CurveData_empty ==
    [buy |-> [i \in TokenIds |-> ZeroTokenPriceData],
     sell |-> [i \in TokenIds |-> ZeroTokenPriceData]]

\* the end of the last slice CurveData::load reads:
\* sell[MAX-1].price[POINTS-1] at 32088 + 160 i + 8 j .. + 8
CurveDataLen ==
    32096 + 160 * (MAX_TOKENS_IN_ASSET_POOL - 1) + 8 * (NUM_OF_POINTS_IN_CURVE_DATA - 1)

\* CurveData::load
CurveData_load(blob) ==
    IF blob.len < CurveDataLen THEN [panic |-> "decode_error"]
    ELSE [panic |-> "none",
          v |-> [buy |-> [i \in TokenIds |->
                            [amount |-> [j \in CurvePoints |-> blob.buy[i].amount[j]],
                             price  |-> [j \in CurvePoints |-> blob.buy[i].price[j]]]],
                 sell |-> [i \in TokenIds |->
                            [amount |-> [j \in CurvePoints |-> blob.sell[i].amount[j]],
                             price  |-> [j \in CurvePoints |-> blob.sell[i].price[j]]]]]]

\* OraclePrice::load, oracle kind 0 (lines 214-246): the triple
\* (price, coinfidence, oracle_live), whether the blob is too short for the
\* slices read, whether a u64 operation overflowed, and whether a mul_div
\* quotient was truncated.
OracleKind0(blob, token_settings, clock) ==
    LET stale == 50 + blob.valid_slot
        price_u64 == blob.price % U64
        conf10 == WrappingMul(blob.conf, 10)
        pow_num == IF blob.expo > 0 THEN [q |-> 0, o |-> TRUE] ELSE Pow10(- blob.expo)
        confidence == accounts_mul_div(blob.conf, ONE_USD, pow_num.q)
    IN  [price       |-> accounts_mul_div(price_u64, ONE_USD, pow_num.q),
         coinfidence |-> accounts_mul_div(confidence, token_settings.oracle_confidence_pct, 100),
         oracle_live |-> IF \/ clock.slot >= stale % U64
                            \/ blob.status # 1
                            \/ blob.price < 0
                            \/ conf10.q > price_u64
                         THEN 0 ELSE 1,
         short       |-> blob.len < 228,
         ovf         |-> stale >= U64 \/ conf10.o \/ pow_num.o,
         trunc       |-> \/ Truncates(price_u64, ONE_USD, pow_num.q)
                         \/ Truncates(blob.conf, ONE_USD, pow_num.q)
                         \/ Truncates(confidence, token_settings.oracle_confidence_pct, 100)]

\* OraclePrice::load, oracle kind 1 (lines 247-271)
OracleKind1(blob, token_settings, clock) ==
    LET price_end == token_settings.oracle_index * 8 + 9 + 8
        deadline == blob.write_timestamp + 15
        base == accounts_mul_div(blob.mantissa, token_settings.oracle_confidence_pct, 10000)
    IN  [price       |-> (blob.mantissa - base) % U64,
         coinfidence |-> base,
         oracle_live |-> IF clock.unix_timestamp % U64 > deadline % U64 THEN 0 ELSE 1,
         short       |-> blob.len < price_end + 400,
         ovf         |-> deadline >= U64 \/ blob.mantissa < base,
         trunc       |-> Truncates(blob.mantissa, token_settings.oracle_confidence_pct, 10000)]

\* OraclePrice::load, any other kind (line 272)
OracleKindUnknown ==
    [price |-> 0, coinfidence |-> 0, oracle_live |-> 0, short |-> FALSE, ovf |-> FALSE,
     trunc |-> FALSE]

\* OraclePrice::load, the prices built from the triple (lines 275-286); with
\* the price, whether a u64 operation wrapped and whether a quotient was
\* truncated on the way to it.
OraclePriceOf(token_settings, k) ==
    LET additional_confidence == accounts_mul_div(k.price, token_settings.fixed_confidence_bps, 10000)
        s1 == k.price - k.coinfidence
        s2 == (s1 % U64) - additional_confidence
        b1 == k.price + k.coinfidence
        b2 == (b1 % U64) + additional_confidence
        ovf == k.ovf \/ s1 < 0 \/ s2 < 0 \/ b1 >= U64 \/ b2 >= U64
        trunc == k.trunc \/ Truncates(k.price, token_settings.fixed_confidence_bps, 10000)
    IN  IF k.short THEN [panic |-> "decode_error"]
        ELSE IF Chk("none", ovf) # "none" THEN [panic |-> Chk("none", ovf)]
        ELSE [panic |-> "none", wrapped |-> ovf, truncated |-> trunc,
              v |-> [sell_price  |-> s2 % U64,
                     avg_price   |-> k.price,
                     buy_price   |-> b2 % U64,
                     oracle_live |-> k.oracle_live]]

\* OraclePrice::load.  clock is Clock::get().unwrap_or_default().
OraclePrice_load(blob, token_settings, clock) ==
    OraclePriceOf(token_settings,
        IF token_settings.oracle_type = 0 THEN OracleKind0(blob, token_settings, clock)
        ELSE IF token_settings.oracle_type = 1 THEN OracleKind1(blob, token_settings, clock)
        ELSE OracleKindUnknown)

----------------------------------------------------------------------------
(* quote() (symmetry_token_swap.rs:255-464).                               *)

\* slice.iter().position(pred): the first index, or -1 for None
PositionOfMint(list, mint) ==
    IF \E i \in TokenIds : list[i].token_mint = mint
    THEN CHOOSE i \in TokenIds :
            /\ list[i].token_mint = mint
            /\ \A j \in TokenIds : list[j].token_mint = mint => i <= j
    ELSE -1

PositionOfToken(comp, id) ==
    IF \E i \in FundSlots : comp[i] = id
    THEN CHOOSE i \in FundSlots :
            /\ comp[i] = id
            /\ \A j \in FundSlots : comp[j] = id => i <= j
    ELSE -1

\* Variants of the tests and clamps below, used to show that the properties
\* depend on them: a gate that lets every oracle through, an inventory clamp
\* that does not clamp, a fee clamp that drops the output instead of capping
\* it, and a band check without the dust exemption.
OracleLivenessIgnored(token_price) == FALSE

NoInventoryClamp(amount_without_fees, inventory) == amount_without_fees

DropAboveAmountWithoutFees(to_amount, amount_without_fees) ==
    IF to_amount > amount_without_fees THEN 0 ELSE to_amount

NoDustExemption(from_token_id, to_target_weight) == FALSE

\* if token_price.oracle_live == 0 { panic!() }   (lines 282-284)
OracleNotLive(token_price) == token_price.oracle_live = 0

\* if amount_without_fees > comp_amount[to] { amount_without_fees = comp_amount[to] }
ClampToInventory(amount_without_fees, inventory) == Min(amount_without_fees, inventory)

\* if to_amount > amount_without_fees { to_amount = amount_without_fees }
ClampToAmountWithoutFees(to_amount, amount_without_fees) == Min(to_amount, amount_without_fees)

\* removing_dust (lines 441-443)
RemovingDust(from_token_id, to_target_weight) == from_token_id = 0 /\ to_target_weight = 0

\* the two weight-band tests (lines 445 and 450)
AboveBand(from_new_weight, allowed_from_target_weight, removing_dust) ==
    from_new_weight > allowed_from_target_weight /\ ~removing_dust

BelowBand(to_new_weight, allowed_to_target_weight) ==
    to_new_weight < allowed_to_target_weight

\* The fund_worth loop (lines 276-290) from slot i on: the sum and the
\* first panic.
RECURSIVE FundWorthLoop(_, _, _, _)
FundWorthLoop(fs, tl, i, acc) ==
    IF acc.panic # "none" \/ i >= fs.num_of_tokens THEN acc
    ELSE IF i >= NUM_TOKENS_IN_FUND \/ fs.current_comp_token[i] >= MAX_TOKENS_IN_ASSET_POOL
    THEN [acc EXCEPT !.panic = "index_out_of_bounds"]
    ELSE
        LET token_settings == tl.list[fs.current_comp_token[i]]
            token_price == token_settings.oracle_price
            sum == acc.fund_worth
                   + amount_to_usd_value(fs.current_comp_amount[i],
                                         token_settings.decimals,
                                         token_price.avg_price)
        IN  IF OracleNotLive(token_price)
            THEN [acc EXCEPT !.panic = "oracle_not_live"]
            ELSE FundWorthLoop(fs, tl, i + 1,
                    [fund_worth |-> sum % U64,
                     panic |-> Chk("none", Pow10(token_settings.decimals).o \/ sum >= U64)])

\* What quote() did when it panicked before the band check
QuoteFailed(why) == [panic |-> why, reached_band_check |-> FALSE]

\* The statements of quote() after both mints and both composition slots are
\* resolved and the fund worth is summed (lines 292-464), last first: each
\* operator below runs its statements and then the ones that follow, unless
\* a statement before it panicked.  q is the record of the locals computed so
\* far; q.panic is the panic of the arithmetic so far.

\* the two band tests and the Quote returned (lines 445-463)
QuoteResult(q) ==
    IF q.panic # "none" THEN QuoteFailed(q.panic)
    ELSE
    [panic                      |->
        IF AboveBand(q.from_new_weight, q.allowed_from_target_weight, q.removing_dust)
        THEN "weight_band_from"
        ELSE IF BelowBand(q.to_new_weight, q.allowed_to_target_weight)
        THEN "weight_band_to"
        ELSE "none",
     reached_band_check         |-> TRUE,
     out_amount                 |-> q.to_amount,
     fee_amount                 |-> q.total_fees,
     fee_bps                    |-> q.fee_bps,
     confidence_bps             |-> q.confidence_bps,
     not_enough_liquidity       |-> FALSE,
     from_token_id              |-> q.from_token_id,
     to_token_id                |-> q.to_token_id,
     from_token_index           |-> q.from_token_index,
     to_token_index             |-> q.to_token_index,
     value                      |-> q.sold.current_output_value,
     bought                     |-> q.bought.current_output_amount,
     fair_amount                |-> q.fair_amount,
     unclamped_amount           |-> q.unclamped_amount,
     amount_without_fees        |-> q.amount_without_fees,
     symmetry_fee               |-> q.symmetry_fee,
     host_fee                   |-> q.host_fee,
     manager_fee                |-> q.manager_fee,
     fund_fee                   |-> q.fund_fee,
     from_new_weight            |-> q.from_new_weight,
     to_new_weight              |-> q.to_new_weight,
     allowed_offset             |-> q.allowed_offset,
     allowed_from_target_weight |-> q.allowed_from_target_weight,
     allowed_to_target_weight   |-> q.allowed_to_target_weight,
     removing_dust              |-> q.removing_dust]

\* allowed_offset, the two allowed weights and removing_dust (lines 425-443)
QuoteBand(fs, q) ==
    IF q.panic # "none" THEN QuoteFailed(q.panic)
    ELSE
    LET offset == WrappingMul(fs.rebalance_threshold, fs.lp_offset_threshold)
        up == BPS_DIVIDER * BPS_DIVIDER + offset.q
        down == BPS_DIVIDER * BPS_DIVIDER - offset.q
    IN  QuoteResult(
        [allowed_offset |-> offset.q,
         allowed_from_target_weight |->
            Min(mul_div(fs.target_weight[q.from_token_index], up % U64, BPS_DIVIDER * BPS_DIVIDER),
                WEIGHT_MULTIPLIER),
         allowed_to_target_weight |->
            mul_div(fs.target_weight[q.to_token_index], down % U64, BPS_DIVIDER * BPS_DIVIDER),
         removing_dust |-> RemovingDust(q.from_token_id, fs.target_weight[q.to_token_index]),
         panic |-> Chk("none", offset.o \/ up >= U64 \/ down < 0)] @@ q)

\* the old weights, the post-swap fund_worth and the new weights (lines 398-423)
QuoteWeights(fs, q) ==
    IF q.panic # "none" THEN QuoteFailed(q.panic)
    ELSE
    LET w1 == q.fund_worth0 - q.from_token_worth_before_swap
        w2 == (w1 % U64) - q.to_token_worth_before_swap
        w3 == (w2 % U64) + q.from_token_worth_after_swap
        w4 == (w3 % U64) + q.to_token_worth_after_swap
    IN  QuoteBand(fs,
        [from_old_weight |-> mul_div(q.from_token_worth_before_swap, WEIGHT_MULTIPLIER, q.fund_worth0),
         to_old_weight   |-> mul_div(q.to_token_worth_before_swap, WEIGHT_MULTIPLIER, q.fund_worth0),
         fund_worth      |-> w4 % U64,
         from_new_weight |-> mul_div(q.from_token_worth_after_swap, WEIGHT_MULTIPLIER, w4 % U64),
         to_new_weight   |-> mul_div(q.to_token_worth_after_swap, WEIGHT_MULTIPLIER, w4 % U64),
         panic           |-> Chk("none", w1 < 0 \/ w2 < 0 \/ w3 >= U64 \/ w4 >= U64)] @@ q)

\* the worth of both tokens before and after the swap (lines 376-396)
QuoteWorths(fs, q) ==
    IF q.panic # "none" THEN QuoteFailed(q.panic)
    ELSE
    LET from_dec == q.from_token_settings.decimals
        to_dec == q.to_token_settings.decimals
        from_avg == q.from_token_settings.oracle_price.avg_price
        to_avg == q.to_token_settings.oracle_price.avg_price
        a1 == fs.current_comp_amount[q.from_token_index] + q.from_amount
        a2 == q.amount_without_fees - q.fund_fee
        a3 == fs.current_comp_amount[q.to_token_index] - (a2 % U64)
    IN  QuoteWeights(fs,
        [from_token_worth_before_swap |->
            amount_to_usd_value(fs.current_comp_amount[q.from_token_index], from_dec, from_avg),
         to_token_worth_before_swap |->
            amount_to_usd_value(fs.current_comp_amount[q.to_token_index], to_dec, to_avg),
         from_token_worth_after_swap |-> amount_to_usd_value(a1 % U64, from_dec, from_avg),
         to_token_worth_after_swap |-> amount_to_usd_value(a3 % U64, to_dec, to_avg),
         panic |-> Chk("none", a1 >= U64 \/ a2 < 0 \/ a3 < 0)] @@ q)

\* the fee split, confidence_bps and fee_bps (lines 354-374)
QuoteFees(fs, tl, q) ==
    LET symmetry_fee == mul_div(q.total_fees, tl.list[0].additional_data[60], 100)
        host_fee == mul_div(q.total_fees, tl.list[0].additional_data[61], 100)
        manager_fee == mul_div(q.total_fees, tl.list[0].additional_data[62], 100)
        f1 == q.total_fees - symmetry_fee
        f2 == (f1 % U64) - host_fee
        f3 == (f2 % U64) - manager_fee
        c1 == q.fair_amount - q.amount_without_fees
    IN  QuoteWorths(fs,
        [symmetry_fee   |-> symmetry_fee,
         host_fee       |-> host_fee,
         manager_fee    |-> manager_fee,
         fund_fee       |-> f3 % U64,
         confidence_bps |-> mul_div(c1 % U64, BPS_DIVIDER * 100, q.fair_amount),
         fee_bps        |-> mul_div(q.amount_without_fees - q.to_amount, BPS_DIVIDER * 100,
                                    q.fair_amount),
         panic          |-> Chk("none", f1 < 0 \/ f2 < 0 \/ f3 < 0 \/ c1 < 0)] @@ q)

\* the two clamps and total_fees (lines 344-352)
QuoteClamps(fs, tl, q) ==
    IF q.bought.panic # "none" THEN QuoteFailed(q.bought.panic)
    ELSE
    LET amount_without_fees ==
            ClampToInventory(q.unclamped_amount, fs.current_comp_amount[q.to_token_index])
        to_amount ==
            ClampToAmountWithoutFees(q.bought.current_output_amount, amount_without_fees)
    IN  QuoteFees(fs, tl,
        [amount_without_fees |-> amount_without_fees,
         to_amount           |-> to_amount,
         total_fees          |-> amount_without_fees - to_amount] @@ q)

\* amount_without_fees and fair_amount (lines 324-342)
QuoteConversions(fs, tl, q) ==
    QuoteClamps(fs, tl,
        [unclamped_amount |->
            usd_value_to_amount(
                amount_to_usd_value(q.from_amount, q.from_token_settings.decimals,
                                    q.from_token_settings.oracle_price.sell_price),
                q.to_token_settings.decimals, q.to_token_settings.oracle_price.buy_price),
         fair_amount |->
            usd_value_to_amount(
                amount_to_usd_value(q.from_amount, q.from_token_settings.decimals,
                                    q.from_token_settings.oracle_price.avg_price),
                q.to_token_settings.decimals, q.to_token_settings.oracle_price.avg_price)] @@ q)

\* to_amount = compute_amount_of_bought_token(value, ..)  (lines 315-322)
QuoteBought(fs, tl, cd, q) ==
    IF q.sold.panic # "none" THEN QuoteFailed(q.sold.panic)
    ELSE QuoteConversions(fs, tl,
            [bought |-> compute_amount_of_bought_token(
                            q.sold.current_output_value, q.to_token_settings,
                            q.to_token_settings.oracle_price,
                            fs.current_comp_amount[q.to_token_index],
                            q.to_token_target_amount, cd.buy[q.to_token_id])] @@ q)

\* value = compute_value_of_sold_token(..)  (lines 306-313)
QuoteSold(fs, tl, cd, q) ==
    IF q.panic # "none" THEN QuoteFailed(q.panic)
    ELSE QuoteBought(fs, tl, cd,
            [sold |-> compute_value_of_sold_token(
                          q.from_amount, q.from_token_settings, q.from_token_settings.oracle_price,
                          fs.current_comp_amount[q.from_token_index],
                          q.from_token_target_amount, cd.sell[q.from_token_id])] @@ q)

\* from_token_target_amount and to_token_target_amount (lines 295-304)
QuoteTargets(fs, tl, cd, q) ==
    QuoteSold(fs, tl, cd,
        [from_token_target_amount |->
            usd_value_to_amount(
                mul_div(fs.target_weight[q.from_token_index], q.fund_worth0, fs.weight_sum),
                q.from_token_settings.decimals, q.from_token_settings.oracle_price.avg_price),
         to_token_target_amount |->
            usd_value_to_amount(
                mul_div(fs.target_weight[q.to_token_index], q.fund_worth0, fs.weight_sum),
                q.to_token_settings.decimals, q.to_token_settings.oracle_price.avg_price),
         panic |-> Chk("none", \/ Pow10(q.from_token_settings.decimals).o
                               \/ Pow10(q.to_token_settings.decimals).o)] @@ q)

\* The body of quote() from line 292 on.
QuoteBody(fs, tl, cd, from_amount, from_token_id, to_token_id, from_token_index, to_token_index, fund_worth0) ==
    QuoteTargets(fs, tl, cd,
        [from_amount         |-> from_amount,
         from_token_id       |-> from_token_id,
         to_token_id         |-> to_token_id,
         from_token_index    |-> from_token_index,
         to_token_index      |-> to_token_index,
         from_token_settings |-> tl.list[from_token_id],
         to_token_settings   |-> tl.list[to_token_id],
         fund_worth0         |-> fund_worth0,
         panic               |-> "none"])

\* quote(quote_params) on the snapshot (fs, tl, cd): panic = "none" means
\* Ok(Quote { in_amount, out_amount, fee_amount, fee_pct, price_impact_pct,
\* ..Quote::default() }); the other fields are the locals of the run.
quote(fs, tl, cd, quote_params) ==
    LET from_token_id == PositionOfMint(tl.list, quote_params.input_mint)
        to_token_id == PositionOfMint(tl.list, quote_params.output_mint)
    IN
    IF from_token_id < 0 \/ to_token_id < 0 THEN QuoteFailed("mint_not_in_catalog")
    ELSE
    LET from_token_index == PositionOfToken(fs.current_comp_token, from_token_id)
        to_token_index == PositionOfToken(fs.current_comp_token, to_token_id)
    IN
    IF from_token_index < 0 \/ to_token_index < 0 THEN QuoteFailed("token_not_in_composition")
    ELSE
    LET worth == FundWorthLoop(fs, tl, 0, [fund_worth |-> 0, panic |-> "none"])
    IN
    IF worth.panic # "none" THEN QuoteFailed(worth.panic)
    ELSE QuoteBody(fs, tl, cd, quote_params.in_amount, from_token_id, to_token_id,
                   from_token_index, to_token_index, worth.fund_worth)

----------------------------------------------------------------------------
(* update() (symmetry_token_swap.rs:240-253).                              *)

\* self.token_list.list[i].oracle_price = OraclePrice::load(..)  (line 246)
AssignOraclePrice(self, i, loaded) ==
    IF loaded.panic # "none" THEN [self EXCEPT !.panic = loaded.panic]
    ELSE [self EXCEPT !.token_list.list[i].oracle_price = loaded.v]

\* The oracle loop (lines 243-250) from catalog entry i on: self as the loop
\* leaves it, with the first panic.
RECURSIVE UpdateOracles(_, _, _, _)
UpdateOracles(self, accounts_map, clock, i) ==
    IF self.panic # "none" \/ i >= MAX_TOKENS_IN_ASSET_POOL THEN self
    ELSE IF self.token_list.list[i].oracle_account = DefaultPubkey
    THEN UpdateOracles(self, accounts_map, clock, i + 1)
    ELSE IF self.token_list.list[i].oracle_account \notin DOMAIN accounts_map
    THEN [self EXCEPT !.panic = "unwrap_none"]
    ELSE UpdateOracles(
            AssignOraclePrice(self, i,
                OraclePrice_load(accounts_map[self.token_list.list[i].oracle_account],
                                 self.token_list.list[i], clock)),
            accounts_map, clock, i + 1)

\* self.curve_data = CurveData::load(..)  (line 241)
AssignCurveData(self, loaded) ==
    IF loaded.panic # "none" THEN [self EXCEPT !.panic = loaded.panic]
    ELSE [self EXCEPT !.curve_data = loaded.v]

\* self.fund_state = FundState::load(..)  (line 242)
AssignFundState(self, loaded) ==
    IF loaded.panic # "none" THEN [self EXCEPT !.panic = loaded.panic]
    ELSE [self EXCEPT !.fund_state = loaded.v]

\* update() from its second statement on (lines 242-250)
UpdateFundState(self, accounts_map, clock) ==
    IF self.panic # "none" THEN self
    ELSE IF self.key \notin DOMAIN accounts_map
    THEN [self EXCEPT !.panic = "unwrap_none"]
    ELSE UpdateOracles(AssignFundState(self, FundState_load(accounts_map[self.key])),
                       accounts_map, clock, 0)

\* update(accounts_map): the three substructures as the call leaves them
\* and its first panic ("none": Ok(())).  Each statement assigns its field
\* as soon as its right-hand side is decoded.
update(self, accounts_map, clock) ==
    IF CURVE_DATA_ADDRESS \notin DOMAIN accounts_map
    THEN [self EXCEPT !.panic = "unwrap_none"]
    ELSE UpdateFundState(
            AssignCurveData(self, CurveData_load(accounts_map[CURVE_DATA_ADDRESS])),
            accounts_map, clock)

----------------------------------------------------------------------------
(* The accounts the host hands to the adapter.                             *)

FUND_STATE_ACCOUNT == "2VHtUhF8KrjN4xx1fEsTB7Fcnw78DNHKwcjQF5ikFzqZ"

\* the catalogued tokens: 0 is the USD-pegged one
Catalogued == 0 .. 2
Mint(i) == <<"mint0", "mint1", "mint2">>[i + 1]
OracleAccount(i) == <<"oracle0", "oracle1", "oracle2">>[i + 1]
Custody(i) == <<"custody0", "custody1", "custody2">>[i + 1]
Decimals(i) == <<0, 1, 0>>[i + 1]
UnknownMint == "mintX"

\* The per-token knobs of a catalog; every catalogued token carries the same.
CatalogProfiles ==
    { [fee_before |-> 0,  fee_after |-> 0,   use_curve |-> 0, conf_pct |-> 0,
       fixed_bps |-> 0,   shares |-> <<5, 20, 20>>],
      [fee_before |-> 30, fee_after |-> 100, use_curve |-> 1, conf_pct |-> 100,
       fixed_bps |-> 100, shares |-> <<5, 20, 20>>],
      [fee_before |-> 30, fee_after |-> 100, use_curve |-> 1, conf_pct |-> 100,
       fixed_bps |-> 100, shares |-> <<100, 100, 0>>] }

CatalogBlob(profile) ==
    [num_tokens |-> Cardinality(Catalogued),
     entry |-> [i \in Catalogued |->
        [token_mint |-> Mint(i), decimals |-> Decimals(i),
         pda_token_account |-> Custody(i),
         oracle_type |-> 0, oracle_account |-> OracleAccount(i), oracle_index |-> 0,
         oracle_confidence_pct |-> profile.conf_pct,
         fixed_confidence_bps |-> profile.fixed_bps,
         token_swap_fee_after_tw_bps |-> profile.fee_after,
         token_swap_fee_before_tw_bps |-> profile.fee_before,
         is_live |-> 1, lp_on |-> 1, use_curve_data |-> profile.use_curve,
         additional_data |-> [j \in 60 .. 62 |-> profile.shares[j - 59]],
         oracle_price |-> ZeroOraclePrice]]]

\* a 20-slot array holding seq, zero-filled
Slots(seq) == [i \in FundSlots |-> IF i < Len(seq) THEN seq[i + 1] ELSE 0]

FundBlob(tokens, amounts, weights, rebalance, lp_offset) ==
    [len |-> 1048, manager |-> "manager", host_pubkey |-> "host",
     num_of_tokens |-> Len(tokens),
     current_comp_token |-> Slots(tokens),
     current_comp_amount |-> Slots(amounts),
     target_weight |-> Slots(weights),
     weight_sum |-> 10000,
     rebalance_threshold |-> rebalance,
     lp_offset_threshold |-> lp_offset]

\* Funds: balanced with a narrow band; token 0 absent (only the zero-filled
\* slots hold 0); a dust position in token 2; a wide band.
FundBlobs ==
    { FundBlob(<<0, 2>>, <<10000, 10000>>, <<5000, 5000>>, 100, 100),
      FundBlob(<<1, 2>>, <<400, 100>>, <<5000, 5000>>, 10000, 5000),
      FundBlob(<<0, 1, 2>>, <<4000, 24000, 1>>, <<4000, 6000, 0>>, 100, 100),
      FundBlob(<<0, 1, 2>>, <<5000, 2000, 3000>>, <<6000, 0, 4000>>, 10000, 5000) }

TruncatedFundBlob == [CHOOSE b \in FundBlobs : TRUE EXCEPT !.len = 1047]

OracleBase(i) == <<100, 250, 100>>[i + 1]

\* ten points of a token's curve: amount per step and the price of step j
CurvePointsOf(amount, first, delta) ==
    [amount |-> [j \in CurvePoints |-> amount],
     price  |-> [j \in CurvePoints |-> first + j * delta]]

CurveBlobs ==
    { [len |-> CurveDataLen, buy |-> CurveData_empty.buy, sell |-> CurveData_empty.sell],
      [len |-> CurveDataLen,
       buy |-> [i \in TokenIds |->
                  IF i \in Catalogued
                  THEN CurvePointsOf(100 * (1 + 9 * Decimals(i)), OracleBase(i) + 2, 1)
                  ELSE ZeroTokenPriceData],
       sell |-> [i \in TokenIds |->
                  IF i \in Catalogued
                  THEN CurvePointsOf(100 * (1 + 9 * Decimals(i)), OracleBase(i) - 2, -1)
                  ELSE ZeroTokenPriceData]] }

TruncatedCurveBlob == [CHOOSE b \in CurveBlobs : TRUE EXCEPT !.len = CurveDataLen - 1]

\* a kind-0 price account
OracleBlob(price, conf, status) ==
    [len |-> 228, valid_slot |-> 1000, expo |-> -3, price |-> price, conf |-> conf,
     status |-> status, mantissa |-> 0, write_timestamp |-> 0]

\* Oracle accounts: every feed trading, or the feed of token `halted` not.
OracleBlobsOf(halted) ==
    [a \in {OracleAccount(i) : i \in Catalogued} |->
        LET i == CHOOSE k \in Catalogued : OracleAccount(k) = a
        IN  OracleBlob(OracleBase(i), i, IF i = halted THEN 0 ELSE 1)]

OracleSets == { OracleBlobsOf(h) : h \in {-1, 2} }

Without(f, k) == [x \in (DOMAIN f) \ {k} |-> f[x]]

FullMaps ==
    { (CURVE_DATA_ADDRESS :> c) @@ (FUND_STATE_ACCOUNT :> f) @@ o :
        c \in CurveBlobs, f \in FundBlobs, o \in OracleSets }

\* Maps on which update() fails: an account missing or a blob cut short.
BrokenMaps ==
    LET m == CHOOSE x \in FullMaps : TRUE
    IN  UNION { { Without(x, CURVE_DATA_ADDRESS),
                  [x EXCEPT ![CURVE_DATA_ADDRESS] = TruncatedCurveBlob],
                  Without(x, FUND_STATE_ACCOUNT),
                  [x EXCEPT ![FUND_STATE_ACCOUNT] = TruncatedFundBlob],
                  Without(x, OracleAccount(1)),
                  [x EXCEPT ![OracleAccount(2)].len = 227] } : x \in {m} }

AccountsMaps == FullMaps \cup BrokenMaps

\* Clock::get().unwrap_or_default() outside the chain runtime
DefaultClock == [slot |-> 0, unix_timestamp |-> 0]

Amounts == {0, 1, 500, 520, 600}

QuoteParamsSet ==
    { p \in [input_mint : {Mint(k) : k \in Catalogued},
              in_amount : Amounts,
              output_mint : {Mint(k) : k \in Catalogued}] :
        p.input_mint # p.output_mint }
    \cup { [input_mint |-> UnknownMint, in_amount |-> 50, output_mint |-> Mint(0)],
           [input_mint |-> Mint(0), in_amount |-> 50, output_mint |-> UnknownMint] }

----------------------------------------------------------------------------
(* The adapter as a state machine.                                         *)

Self == [key |-> key, fund_state |-> fund_state, token_list |-> token_list,
         curve_data |-> curve_data, panic |-> "none"]

\* from_keyed_account (lines 36-48) on accounts that decode
Init ==
    /\ overflow_checks \in BOOLEAN
    /\ key = FUND_STATE_ACCOUNT
    /\ \E f \in FundBlobs : fund_state = FundState_load(f).v
    /\ \E c \in CatalogProfiles : token_list = TokenList_load(CatalogBlob(c))
    /\ curve_data = CurveData_empty
    /\ last = [op |-> "from_keyed_account"]

Update(accounts_map) ==
    \E r \in {update(Self, accounts_map, DefaultClock)} :
        /\ fund_state' = r.fund_state
        /\ token_list' = r.token_list
        /\ curve_data' = r.curve_data
        /\ last' = [op |-> "update", panic |-> r.panic]
        /\ UNCHANGED <<overflow_checks, key>>

Quote(quote_params) ==
    /\ last' = [op |-> "quote", params |-> quote_params,
                result |-> quote(fund_state, token_list, curve_data, quote_params)]
    /\ UNCHANGED <<overflow_checks, key, fund_state, token_list, curve_data>>

Next ==
    \/ \E m \in AccountsMaps : Update(m)
    \/ \E p \in QuoteParamsSet : Quote(p)

Spec == Init /\ [][Next]_vars

----------------------------------------------------------------------------
(* Properties.                                                             *)

QuoteCalled == last.op = "quote"
QuoteReturned == QuoteCalled /\ last.result.panic = "none"
QuotePanicked == QuoteCalled /\ last.result.panic # "none"
UpdateFailed == last.op = "update" /\ last.panic # "none"

\* the composition slots in use: 0 .. n_tokens - 1
UsedSlots == { i \in FundSlots : i < fund_state.num_of_tokens }

\* C1: update() is atomic with respect to failure: a call that fails leaves
\* fund_state, curve_data and every oracle_price as they were before it.
C1_UpdateAtomicOnFailure ==
    [][ (last'.op = "update" /\ last'.panic # "none")
        => /\ fund_state' = fund_state
           /\ curve_data' = curve_data
           /\ token_list' = token_list ]_vars

\* the band tests of a quote that got as far as the band check
BandViolation(r) ==
    /\ r.reached_band_check
    /\ \/ r.from_new_weight > r.allowed_from_target_weight /\ ~r.removing_dust
       \/ r.to_new_weight < r.allowed_to_target_weight

\* C2: a weight-band violation is a soft failure: quote() returns a Quote
\* with out_amount = 0 and not_enough_liquidity = true, not an error.
C2_BandViolationIsSoft ==
    (QuoteCalled /\ BandViolation(last.result))
    => /\ last.result.panic = "none"
       /\ last.result.out_amount = 0
       /\ last.result.not_enough_liquidity

SomeCompositionOracleNotLive ==
    \E i \in UsedSlots :
        /\ fund_state.current_comp_token[i] \in TokenIds
        /\ token_list.list[fund_state.current_comp_token[i]].oracle_price.oracle_live = 0

\* C3: if any token of the composition has an oracle price that is not
\* live, quote() fails for every pair of mints and every amount; it never
\* returns a Quote.
C3_OracleLivenessGate ==
    (QuoteCalled /\ SomeCompositionOracleNotLive) => last.result.panic # "none"

\* C3's case: both mints resolved, and the quote stopped at the liveness gate
C3_Witness ==
    /\ QuoteCalled
    /\ SomeCompositionOracleNotLive
    /\ last.result.panic = "oracle_not_live"
    /\ \E i \in UsedSlots :
          token_list.list[fund_state.current_comp_token[i]].oracle_price.avg_price > 0

MintResolves(mint) == \E i \in TokenIds : token_list.list[i].token_mint = mint

InComposition(mint) ==
    \E i \in TokenIds :
        /\ token_list.list[i].token_mint = mint
        /\ \A j \in TokenIds : token_list.list[j].token_mint = mint => i <= j
        /\ \E k \in UsedSlots : fund_state.current_comp_token[k] = i

\* C4: quote() fails unless both mints resolve to catalog entries whose
\* token ids are among comp_token[0 .. n_tokens-1].
C4_UnresolvableMintFails ==
    (QuoteCalled /\ ~(InComposition(last.params.input_mint)
                      /\ InComposition(last.params.output_mint)))
    => last.result.panic # "none"

\* the catalog entry and the composition slot the last quote resolved
FromId == PositionOfMint(token_list.list, last.params.input_mint)
ToId == PositionOfMint(token_list.list, last.params.output_mint)
FromIdx == PositionOfToken(fund_state.current_comp_token, FromId)
ToIdx == PositionOfToken(fund_state.current_comp_token, ToId)

Rejected(r) == r.panic \in {"weight_band_from", "weight_band_to"}

DustRemoval == FromId = 0 /\ fund_state.target_weight[ToIdx] = 0

BandOffset == fund_state.rebalance_threshold * fund_state.lp_offset_threshold

\* target_weight * (10^8 + offset) / 10^8 and target_weight * (10^8 - offset) / 10^8,
\* as quotient and remainder
FromBound == WideMulDiv(fund_state.target_weight[FromIdx], 100000000 + BandOffset, 100000000)
ToBound == WideMulDiv(fund_state.target_weight[ToIdx], 100000000 - BandOffset, 100000000)

\* C5 as claimed: the swap is rejected exactly when
\* from_new_weight > target_weight[from]*(1 + allowed_offset) without the
\* dust exemption, or to_new_weight < target_weight[to]*(1 - allowed_offset),
\* the two products taken exactly.
C5_ExactBandRule ==
    (QuoteCalled /\ last.result.reached_band_check)
    => (Rejected(last.result)
        <=> \/ last.result.from_new_weight > FromBound.q /\ ~DustRemoval
            \/ last.result.to_new_weight < ToBound.q + (IF ToBound.r > 0 THEN 1 ELSE 0))

\* C5 amended: the two allowed weights are rounded down to whole weight
\* units (and the from-side one capped at 10000) before the comparison.
C5_BandRule ==
    (QuoteCalled /\ last.result.reached_band_check)
    => (Rejected(last.result)
        <=> \/ /\ last.result.from_new_weight > Min(FromBound.q, WEIGHT_MULTIPLIER)
               /\ ~DustRemoval
            \/ last.result.to_new_weight < ToBound.q)

\* C5's case: a dust removal that exceeds the from-side band and succeeds
C5_Witness ==
    /\ QuoteReturned
    /\ DustRemoval
    /\ last.params.in_amount > 0
    /\ last.result.from_new_weight > FromBound.q

\* The price the clamp compares against the inventory
UnclampedAmount ==
    LET from == token_list.list[FromId]
        to == token_list.list[ToId]
    IN  usd_value_to_amount(
            amount_to_usd_value(last.params.in_amount, from.decimals, from.oracle_price.sell_price),
            to.decimals, to.oracle_price.buy_price)

\* C6: every Quote returned has out_amount <= amount_without_fees <=
\* comp_amount[to_idx], amount_without_fees being the fee-less conversion
\* capped at the inventory, and fee_amount = amount_without_fees - out_amount >= 0.
C6_OutputClamp ==
    QuoteReturned
    => /\ last.result.out_amount <= last.result.amount_without_fees
       /\ last.result.amount_without_fees <= fund_state.current_comp_amount[ToIdx]
       /\ last.result.amount_without_fees
            = Min(UnclampedAmount, fund_state.current_comp_amount[ToIdx])
       /\ last.result.fee_amount = last.result.amount_without_fees - last.result.out_amount
       /\ last.result.fee_amount >= 0

\* C6's case: the conversion exceeded the inventory and was capped
C6_Witness ==
    /\ QuoteReturned
    /\ UnclampedAmount > fund_state.current_comp_amount[ToIdx]
    /\ last.result.out_amount > 0
    /\ last.result.fee_amount > 0

\* C7: the four fee parts are non-negative and add up to total_fee exactly,
\* for every share bytes the catalog carries.
C7_FeeSplitConservation ==
    QuoteReturned
    => /\ last.result.symmetry_fee >= 0 /\ last.result.host_fee >= 0
       /\ last.result.manager_fee >= 0 /\ last.result.fund_fee >= 0
       /\ last.result.symmetry_fee + last.result.host_fee
            + last.result.manager_fee + last.result.fund_fee
          = last.result.fee_amount

AllCompositionOraclesLive == ~SomeCompositionOracleNotLive

\* C8: with live oracles and two mints of the composition, in_amount = 0
\* gives a Quote with out_amount = 0, fee_amount = 0 and price_impact = 0.
\* (A weight-band rejection is C2's subject and is left aside here.)
C8_ZeroInput ==
    (/\ QuoteCalled
     /\ last.params.in_amount = 0
     /\ AllCompositionOraclesLive
     /\ InComposition(last.params.input_mint)
     /\ InComposition(last.params.output_mint)
     /\ ~Rejected(last.result))
    => /\ last.result.panic = "none"
       /\ last.result.out_amount = 0
       /\ last.result.fee_amount = 0
       /\ last.result.confidence_bps = 0

\* two quotes in a row for the same mints, the second for no less
GrowingQuotes ==
    /\ QuoteReturned
    /\ last'.op = "quote"
    /\ last'.result.panic = "none"
    /\ last'.params.input_mint = last.params.input_mint
    /\ last'.params.output_mint = last.params.output_mint
    /\ last.params.in_amount <= last'.params.in_amount

Saturated(r) == r.unclamped_amount >= fund_state.current_comp_amount[r.to_token_index]

C10_NumeraireLeg ==
    QuoteReturned
    => LET zero == token_list.list[0] IN
       /\ FromId = 0 =>
            last.result.value
              = amount_to_usd_value(last.params.in_amount, zero.decimals,
                                    zero.oracle_price.sell_price)
       /\ ToId = 0 =>
            last.result.bought
              = usd_value_to_amount(last.result.value, zero.decimals,
                                    zero.oracle_price.buy_price)

----------------------------------------------------------------------------
(* The oracle decoder on its own: OraclePrice::load applied to price       *)
(* accounts, token settings and clocks drawn from bounded sets.            *)

\* the least conf whose conf * 10 does not fit the u64 word
WrapConf == (U64 + 9) \div 10

\* a kind-0 price account (the fields OraclePrice::load reads)
PriceAccount0(len, valid_slot, expo, price, conf, status) ==
    [len |-> len, valid_slot |-> valid_slot, expo |-> expo, price |-> price,
     conf |-> conf, status |-> status, mantissa |-> 0, write_timestamp |-> 0]

\* a kind-1 price account
PriceAccount1(len, mantissa, write_timestamp) ==
    [len |-> len, valid_slot |-> 0, expo |-> 0, price |-> 0, conf |-> 0,
     status |-> 0, mantissa |-> mantissa, write_timestamp |-> write_timestamp]

OracleSettings(oracle_type, pct, bps) ==
    [DefaultTokenSettings EXCEPT !.oracle_type = oracle_type,
                                 !.oracle_confidence_pct = pct,
                                 !.fixed_confidence_bps = bps]

\* Kind 0 around the liveness tests: the age, the status, the sign of the
\* price and the width of the confidence interval.
LivenessInputs ==
    { [blob |-> PriceAccount0(228, vs, -3, p, c, st),
       token_settings |-> OracleSettings(0, k, k),
       clock |-> [slot |-> sl, unix_timestamp |-> 0]] :
        vs \in {1000, U64 - 50}, p \in {-1, 0, 100}, c \in {0, 10, 11, WrapConf},
        st \in {0, 1}, k \in {0, 100}, sl \in {0, 1049, 1050} }

\* Kind 0 around the price arithmetic: the exponent, a wide confidence
\* interval, the largest settings, a truncated account.
PriceInputs ==
    { [blob |-> PriceAccount0(len, 1000, e, p, c, 1),
       token_settings |-> OracleSettings(0, pct, bps),
       clock |-> DefaultClock] :
        len \in {227, 228}, e \in {-3, 0, 1}, p \in {100, 2 * (U64 \div ONE_USD)},
        c \in {0, 10, 200}, pct \in {0, 100, 255}, bps \in {0, 255} }

\* Kind 1: the mantissa, the age of the write, the settings.
Kind1Inputs ==
    { [blob |-> PriceAccount1(len, m, wt),
       token_settings |-> OracleSettings(1, pct, bps),
       clock |-> [slot |-> 0, unix_timestamp |-> now]] :
        len \in {416, 417}, m \in {0, 100000, U64 - 1}, wt \in {100, U64 - 1},
        now \in {-1, 115, 116}, pct \in {0, 255}, bps \in {0, 255} }

\* Any other kind.
UnknownKindInputs ==
    { [blob |-> PriceAccount0(228, 1000, -3, 100, 0, 1),
       token_settings |-> OracleSettings(ty, 100, 100),
       clock |-> DefaultClock] : ty \in {2, 255} }

OracleInputs == LivenessInputs \cup PriceInputs \cup Kind1Inputs \cup UnknownKindInputs

InitOracle ==
    /\ overflow_checks \in BOOLEAN
    /\ key = FUND_STATE_ACCOUNT
    /\ fund_state = FundState_load(CHOOSE f \in FundBlobs : TRUE).v
    /\ token_list = TokenList_load(CatalogBlob(CHOOSE c \in CatalogProfiles : TRUE))
    /\ curve_data = CurveData_empty
    /\ \E i \in OracleInputs :
          last = [op |-> "oracle_input", blob |-> i.blob,
                  token_settings |-> i.token_settings, clock |-> i.clock]

\* OraclePrice::load(account_data, token_settings) under the clock
LoadOraclePrice ==
    /\ last.op = "oracle_input"
    /\ last' = [op |-> "oracle_load", blob |-> last.blob,
                token_settings |-> last.token_settings, clock |-> last.clock,
                result |-> OraclePrice_load(last.blob, last.token_settings, last.clock)]
    /\ UNCHANGED <<overflow_checks, key, fund_state, token_list, curve_data>>

NextOracle == LoadOraclePrice

SpecOracle == InitOracle /\ [][NextOracle]_vars

OracleLoaded == last.op = "oracle_load"
OracleReturned == OracleLoaded /\ last.result.panic = "none"

\* C11: arithmetic overflow is a hard error in the oracle decoder: it returns
\* no price when an intermediate (50 + valid_slot, conf * 10, the power of
\* ten, a sum or difference of price and confidence, a mul_div quotient) did
\* not fit the u64 word; nothing is silently wrapped or truncated.
C11_OverflowIsHardError ==
    OracleReturned => ~last.result.wrapped /\ ~last.result.truncated

----------------------------------------------------------------------------
(* mul_div on its own: both copies applied to operands drawn from bounded  *)
(* sets.                                                                   *)

\* operands whose product fits 2^31, some with a quotient of 2^30 and more
NarrowOperands ==
    { [a |-> a, b |-> b, c |-> c] :
        a \in {0, 1, 3, 1000, 2^15, 2^15 + 1}, b \in {0, 1, 3, 1000, 2^15, 2^15 + 1},
        c \in {0, 1, 7, 1000, 2^15} }

\* operands whose product needs the wide multiplication
WideOperands ==
    { [a |-> a, b |-> b, c |-> c] :
        a \in {2^20, U64 - 1}, b \in {1000, 2^20, U64 - 1}, c \in {0, 1000, 2^15} }

MulDivOperands == NarrowOperands \cup WideOperands

InitMulDiv ==
    /\ overflow_checks \in BOOLEAN
    /\ key = FUND_STATE_ACCOUNT
    /\ fund_state = FundState_load(CHOOSE f \in FundBlobs : TRUE).v
    /\ token_list = TokenList_load(CatalogBlob(CHOOSE c \in CatalogProfiles : TRUE))
    /\ curve_data = CurveData_empty
    /\ \E i \in MulDivOperands :
          last = [op |-> "mul_div_input", a |-> i.a, b |-> i.b, c |-> i.c]

\* mul_div(a, b, c) and SymmetryTokenSwap::mul_div(a, b, c)
ApplyMulDiv ==
    /\ last.op = "mul_div_input"
    /\ last' = [op |-> "mul_div", a |-> last.a, b |-> last.b, c |-> last.c,
                accounts_result |-> accounts_mul_div(last.a, last.b, last.c),
                result |-> mul_div(last.a, last.b, last.c)]
    /\ UNCHANGED <<overflow_checks, key, fund_state, token_list, curve_data>>

NextMulDiv == ApplyMulDiv

SpecMulDiv == InitMulDiv /\ [][NextMulDiv]_vars

MulDivApplied == last.op = "mul_div"

\* the operands whose product the model checker's own integers hold
NativeProduct == last.a = 0 \/ last.b <= 2147483647 \div last.a

\* C12: mul_div returns 0 when c = 0 and floor(a * b / c) of the exact product
\* otherwise, and the two copies agree on every input.
C12_MulDivExact ==
    MulDivApplied
    => /\ last.accounts_result = last.result
       /\ last.c = 0 => last.result = 0
       /\ last.c # 0 /\ NativeProduct => last.result = (last.a * last.b) \div last.c
       /\ ~Truncates(last.a, last.b, last.c)

----------------------------------------------------------------------------
(* The read-only methods of the adapter (symmetry_token_swap.rs:210-238,   *)
(* 466-556) and the adapter with them.                                     *)

TOKEN_LIST_ADDRESS == "3SnUughtueoVrhevXTLMf586qvKNNXggNsc7NgoMUU1t"
PDA_ADDRESS == "BLBYiq48WcLQ5SxiftyKmPtmsZPUBEnDEjqEnKGAR4zx"
SWAP_FEE_ADDRESS == "AWfpfzA6FYbqx4JLz75PDgsjH7jtBnnmJ6MXW5zNY2Ei"
ASSOCIATED_TOKEN_PROGRAM_ADDRESS == "ATokenGPvbdGVxr1b2hvZbsiqW5xWH25efTNsLJA8knL"
SPL_TOKEN_PROGRAM_ADDRESS == "TokenkegQfeZyiNwAJbNbGKPFXCWuBvf9Ss623VQ5DA"

\* Pubkey::find_program_address(seeds, program_id).0: an address determined by
\* the seeds and the program, different for different seeds
find_program_address(seeds, program_id) == <<"pda", seeds, program_id>>

\* AccountMeta::new and AccountMeta::new_readonly
AccountMeta_new(pubkey, is_signer) ==
    [pubkey |-> pubkey, is_signer |-> is_signer, is_writable |-> TRUE]

AccountMeta_new_readonly(pubkey, is_signer) ==
    [pubkey |-> pubkey, is_signer |-> is_signer, is_writable |-> FALSE]

\* whether the loops over 0 .. num_of_tokens - 1 index current_comp_token or
\* token_list.list out of bounds
CompositionOutOfBounds(fs) ==
    \/ fs.num_of_tokens > NUM_TOKENS_IN_FUND
    \/ \E i \in FundSlots :
          i < fs.num_of_tokens /\ fs.current_comp_token[i] >= MAX_TOKENS_IN_ASSET_POOL

\* the catalog entries of the composition, in composition order
CompositionEntries(fs, tl) ==
    [i \in 1 .. fs.num_of_tokens |-> tl.list[fs.current_comp_token[i - 1]]]

label == "Symmetry"

key_of(self) == self.key

get_reserve_mints(self) ==
    IF CompositionOutOfBounds(self.fund_state)
    THEN [panic |-> "index_out_of_bounds"]
    ELSE LET LpOn(x) == x.lp_on # LP_DISABLED
             kept == SelectSeq(CompositionEntries(self.fund_state, self.token_list), LpOn)
         IN  [panic |-> "none", v |-> [i \in 1 .. Len(kept) |-> kept[i].token_mint]]

get_accounts_to_update(self) ==
    LET HasOracle(x) == x.oracle_account # DefaultPubkey
        entries == [i \in 1 .. MAX_TOKENS_IN_ASSET_POOL |-> self.token_list.list[i - 1]]
        kept == SelectSeq(entries, HasOracle)
    IN  <<CURVE_DATA_ADDRESS, self.key>> \o [i \in 1 .. Len(kept) |-> kept[i].oracle_account]

\* the ATA of owner for the destination mint (lines 484-507)
FeeAccount(owner, destination_mint) ==
    find_program_address(<<owner, SPL_TOKEN_PROGRAM_ADDRESS, destination_mint>>,
                         ASSOCIATED_TOKEN_PROGRAM_ADDRESS)

\* Variant of the oracle accounts below, used to show that the account list
\* property depends on them: the oracles in catalog order.
OracleMetasInCatalogOrder(self) ==
    LET InComp(i) == \E s \in FundSlots :
                        s < self.fund_state.num_of_tokens
                        /\ self.fund_state.current_comp_token[s] = i - 1
        ids == SelectSeq([i \in 1 .. MAX_TOKENS_IN_ASSET_POOL |-> i], InComp)
    IN  [i \in 1 .. Len(ids) |->
            AccountMeta_new_readonly(self.token_list.list[ids[i] - 1].oracle_account, FALSE)]

\* the remaining accounts (lines 525-529): one oracle per composition slot
OracleMetas(self) ==
    LET entries == CompositionEntries(self.fund_state, self.token_list)
    IN  [i \in 1 .. Len(entries) |-> AccountMeta_new_readonly(entries[i].oracle_account, FALSE)]

\* get_swap_leg_and_account_metas.  The instruction data built at lines
\* 531-544 is not part of what is returned.
get_swap_leg_and_account_metas(self, swap_params) ==
    LET from_token_id == PositionOfMint(self.token_list.list, swap_params.source_mint)
        to_token_id == PositionOfMint(self.token_list.list, swap_params.destination_mint)
        list == self.token_list.list
        fixed ==
            << AccountMeta_new(swap_params.user_transfer_authority, TRUE),
               AccountMeta_new(self.key, FALSE),
               AccountMeta_new_readonly(PDA_ADDRESS, FALSE),
               AccountMeta_new(list[from_token_id].pda_token_account, FALSE),
               AccountMeta_new(swap_params.user_source_token_account, FALSE),
               AccountMeta_new(list[to_token_id].pda_token_account, FALSE),
               AccountMeta_new(swap_params.user_destination_token_account, FALSE),
               AccountMeta_new(FeeAccount(SWAP_FEE_ADDRESS, swap_params.destination_mint), FALSE),
               AccountMeta_new(FeeAccount(self.fund_state.host_pubkey,
                                          swap_params.destination_mint), FALSE),
               AccountMeta_new(FeeAccount(self.fund_state.manager,
                                          swap_params.destination_mint), FALSE),
               AccountMeta_new_readonly(TOKEN_LIST_ADDRESS, FALSE),
               AccountMeta_new_readonly(CURVE_DATA_ADDRESS, FALSE),
               AccountMeta_new_readonly(SPL_TOKEN_PROGRAM_ADDRESS, FALSE) >>
    IN  IF from_token_id = -1 \/ to_token_id = -1 THEN [panic |-> "unwrap_none"]
        ELSE IF CompositionOutOfBounds(self.fund_state) THEN [panic |-> "index_out_of_bounds"]
        ELSE [panic |-> "none", swap_leg |-> "TokenSwap",
              account_metas |-> fixed \o OracleMetas(self)]

\* clone (lines 50-74), boxed by clone_amm
clone_amm(self) ==
    [key |-> self.key, label |-> label,
     fund_state |-> self.fund_state, token_list |-> self.token_list,
     curve_data |-> self.curve_data]

\* A fund whose composition is not in catalog order, next to the others.
AmmFundBlobs ==
    FundBlobs \cup { FundBlob(<<2, 0, 1>>, <<3000, 5000, 2000>>, <<4000, 6000, 0>>, 10000, 5000) }

SwapParamsSet ==
    { [source_mint |-> s, destination_mint |-> d, in_amount |-> 50,
       user_transfer_authority |-> "user",
       user_source_token_account |-> "userSource",
       user_destination_token_account |-> "userDestination"] :
        s \in {Mint(0), Mint(2), UnknownMint}, d \in {Mint(0), Mint(1), UnknownMint} }

InitAmm ==
    /\ overflow_checks \in BOOLEAN
    /\ key = FUND_STATE_ACCOUNT
    /\ \E f \in AmmFundBlobs : fund_state = FundState_load(f).v
    /\ \E c \in CatalogProfiles : token_list = TokenList_load(CatalogBlob(c))
    /\ curve_data = CurveData_empty
    /\ last = [op |-> "from_keyed_account"]

\* Variant of GetSwapLegAndAccountMetas below, used to show that the frame
\* property depends on the methods' not writing: one that resets the curves.
SwapLegResettingCurves(swap_params) ==
    /\ last' = [op |-> "get_swap_leg_and_account_metas", params |-> swap_params,
                result |-> get_swap_leg_and_account_metas(Self, swap_params)]
    /\ curve_data' = CurveData_empty
    /\ UNCHANGED <<overflow_checks, key, fund_state, token_list>>

Label ==
    /\ last' = [op |-> "label", result |-> label]
    /\ UNCHANGED <<overflow_checks, key, fund_state, token_list, curve_data>>

Key ==
    /\ last' = [op |-> "key", result |-> key_of(Self)]
    /\ UNCHANGED <<overflow_checks, key, fund_state, token_list, curve_data>>

GetReserveMints ==
    /\ last' = [op |-> "get_reserve_mints", result |-> get_reserve_mints(Self)]
    /\ UNCHANGED <<overflow_checks, key, fund_state, token_list, curve_data>>

GetAccountsToUpdate ==
    /\ last' = [op |-> "get_accounts_to_update", result |-> get_accounts_to_update(Self)]
    /\ UNCHANGED <<overflow_checks, key, fund_state, token_list, curve_data>>

GetSwapLegAndAccountMetas(swap_params) ==
    /\ last' = [op |-> "get_swap_leg_and_account_metas", params |-> swap_params,
                result |-> get_swap_leg_and_account_metas(Self, swap_params)]
    /\ UNCHANGED <<overflow_checks, key, fund_state, token_list, curve_data>>

CloneAmm ==
    /\ last' = [op |-> "clone_amm", result |-> clone_amm(Self)]
    /\ UNCHANGED <<overflow_checks, key, fund_state, token_list, curve_data>>

NextAmm ==
    \/ \E m \in AccountsMaps : Update(m)
    \/ \E p \in QuoteParamsSet : Quote(p)
    \/ Label
    \/ Key
    \/ GetReserveMints
    \/ GetAccountsToUpdate
    \/ \E p \in SwapParamsSet : GetSwapLegAndAccountMetas(p)
    \/ CloneAmm

SpecAmm == InitAmm /\ [][NextAmm]_vars

ReadOnlyMethods ==
    {"quote", "get_reserve_mints", "get_accounts_to_update",
     "get_swap_leg_and_account_metas", "label", "key", "clone_amm"}

\* C13: update() is the sole mutator: quote(), get_reserve_mints(),
\* get_accounts_to_update(), get_swap_leg_and_account_metas(), label(), key()
\* and clone_amm() leave key, fund_state, token_list and curve_data as they
\* were, whether they return or fail; and a quote() that follows a quote()
\* with the same parameters, no update() between them, has the same result.
C13_UpdateIsSoleMutator ==
    [][ /\ last'.op \in ReadOnlyMethods
           => UNCHANGED <<key, fund_state, token_list, curve_data>>
        /\ (last.op = "quote" /\ last'.op = "quote" /\ last'.params = last.params)
           => last'.result = last.result ]_vars

\* C13's case: on an adapter update() has refreshed, a read-only method that
\* failed
C13_Witness ==
    /\ curve_data # CurveData_empty
    /\ last.op = "get_swap_leg_and_account_metas"
    /\ last.result.panic # "none"

\* the liveness rule of a kind-0 account, on exact integers
Kind0Fresh(blob, clock) ==
    ~ \/ clock.slot >= blob.valid_slot + 50
      \/ blob.status # 1
      \/ blob.price < 0
      \/ 10 * blob.conf > blob.price

\* C14: for oracle kind 0 the decoder sets live = 1 exactly when none of these
\* holds: current_slot >= valid_slot + 50, status # 1, price < 0,
\* 10 * conf > price (the product taken exactly); otherwise live = 0.
C14_Kind0Liveness ==
    (OracleReturned /\ last.token_settings.oracle_type = 0)
    => /\ last.result.v.oracle_live \in {0, 1}
       /\ last.result.v.oracle_live = 1 <=> Kind0Fresh(last.blob, last.clock)

SwapAccountsBuilt ==
    last.op = "get_swap_leg_and_account_metas" /\ last.result.panic = "none"

\* an account of the list: its address and its two flags
Role(pubkey, is_signer, is_writable) ==
    [pubkey |-> pubkey, is_signer |-> is_signer, is_writable |-> is_writable]

\* the catalog entry of a mint
EntryOfMint(mint) == token_list.list[PositionOfMint(token_list.list, mint)]

\* C15: the account list of a swap consists of exactly 13 fixed roles in this
\* order: user authority (signer, writable), fund state (writable), fund PDA
\* (read-only), source custody (writable), user source (writable), destination
\* custody (writable), user destination (writable), the swap-fee, host-fee and
\* manager-fee accounts of the destination mint, token catalog (read-only),
\* curve dataset (read-only), SPL token program (read-only); followed by
\* exactly n_tokens read-only oracle accounts, the i-th being the oracle of
\* catalog entry comp_token[i].
C15_SwapAccountList ==
    SwapAccountsBuilt
    => LET m == last.result.account_metas
           p == last.params
           n == fund_state.num_of_tokens
       IN  /\ Len(m) = 13 + n
           /\ m[1] = Role(p.user_transfer_authority, TRUE, TRUE)
           /\ m[2] = Role(key, FALSE, TRUE)
           /\ m[3] = Role(PDA_ADDRESS, FALSE, FALSE)
           /\ m[4] = Role(EntryOfMint(p.source_mint).pda_token_account, FALSE, TRUE)
           /\ m[5] = Role(p.user_source_token_account, FALSE, TRUE)
           /\ m[6] = Role(EntryOfMint(p.destination_mint).pda_token_account, FALSE, TRUE)
           /\ m[7] = Role(p.user_destination_token_account, FALSE, TRUE)
           /\ m[8].pubkey = FeeAccount(SWAP_FEE_ADDRESS, p.destination_mint)
           /\ m[9].pubkey = FeeAccount(fund_state.host_pubkey, p.destination_mint)
           /\ m[10].pubkey = FeeAccount(fund_state.manager, p.destination_mint)
           /\ \A i \in 8 .. 10 : ~m[i].is_signer
           /\ m[11] = Role(TOKEN_LIST_ADDRESS, FALSE, FALSE)
           /\ m[12] = Role(CURVE_DATA_ADDRESS, FALSE, FALSE)
           /\ m[13] = Role(SPL_TOKEN_PROGRAM_ADDRESS, FALSE, FALSE)
           /\ \A i \in 0 .. n - 1 :
                 m[14 + i] = Role(token_list.list[fund_state.current_comp_token[i]].oracle_account,
                                  FALSE, FALSE)

\* C15's case: the account list of a fund whose composition is not in
\* catalog order
C15_Witness ==
    /\ SwapAccountsBuilt
    /\ fund_state.num_of_tokens = 3
    /\ fund_state.current_comp_token[0] > fund_state.current_comp_token[1]

----------------------------------------------------------------------------
(* The curve walkers on their own: compute_value_of_sold_token and         *)
(* compute_amount_of_bought_token applied to arguments drawn from bounded  *)
(* sets.                                                                   *)

WalkSettings(decimals, use_curve, fee_before, fee_after) ==
    [DefaultTokenSettings EXCEPT !.decimals = decimals,
                                 !.use_curve_data = use_curve,
                                 !.token_swap_fee_before_tw_bps = fee_before,
                                 !.token_swap_fee_after_tw_bps = fee_after]

\* a live price with a spread of 2 around avg_price (none at 0)
WalkPrice(avg_price) ==
    [sell_price |-> IF avg_price = 0 THEN 0 ELSE avg_price - 1, avg_price |-> avg_price,
     buy_price |-> IF avg_price = 0 THEN 0 ELSE avg_price + 1, oracle_live |-> 1]

\* Curves: all zero; falling from below the price; rising from above it;
\* short steps rising through it.
WalkCurves ==
    { ZeroTokenPriceData,
      CurvePointsOf(100, 98, -1),
      CurvePointsOf(100, 102, 1),
      CurvePointsOf(20, 95, 2) }

\* inventory and target: both zero, below target, above target, near it
WalkPositions ==
    { [start_amount |-> 0, target_amount |-> 0],
      [start_amount |-> 100, target_amount |-> 1000],
      [start_amount |-> 400, target_amount |-> 200],
      [start_amount |-> 100, target_amount |-> 150] }

WalkInputs(op, sizes) ==
    { [op |-> op, size |-> n, token_settings |-> WalkSettings(d, u, f[1], f[2]),
       price |-> WalkPrice(p), start_amount |-> w.start_amount,
       target_amount |-> w.target_amount, curve |-> c] :
        n \in sizes, d \in {0, 1}, u \in {0, USE_CURVE_DATA}, f \in {<<0, 0>>, <<30, 100>>},
        p \in {0, 100}, w \in WalkPositions, c \in WalkCurves }

\* amounts sold: nothing, a unit, within a step, across steps, beyond the
\* curve, and one whose value does not fit the word
SoldAmounts == {0, 1, 50, 300, 5000, U64 \div 99 + 1}

\* values spent: nothing, a unit, within a step, beyond the curve, and one
\* whose double does not fit the word
SpentValues == {0, 1, 50, 5000, 300000, U64 \div 2 + 50}

InitWalk ==
    /\ overflow_checks \in BOOLEAN
    /\ key = FUND_STATE_ACCOUNT
    /\ fund_state = FundState_load(CHOOSE f \in FundBlobs : TRUE).v
    /\ token_list = TokenList_load(CatalogBlob(CHOOSE c \in CatalogProfiles : TRUE))
    /\ curve_data = CurveData_empty
    /\ last \in WalkInputs("sell_input", SoldAmounts) \cup WalkInputs("buy_input", SpentValues)

\* compute_value_of_sold_token(amount, token_settings, price, start_amount,
\* target_amount, curve_data)
ComputeValueOfSoldToken ==
    /\ last.op = "sell_input"
    /\ last' = [last EXCEPT !.op = "sell"] @@
               [result |-> compute_value_of_sold_token(last.size, last.token_settings,
                               last.price, last.start_amount, last.target_amount, last.curve)]
    /\ UNCHANGED <<overflow_checks, key, fund_state, token_list, curve_data>>

\* compute_amount_of_bought_token(value, token_settings, price, start_amount,
\* target_amount, curve_data)
ComputeAmountOfBoughtToken ==
    /\ last.op = "buy_input"
    /\ last' = [last EXCEPT !.op = "buy"] @@
               [result |-> compute_amount_of_bought_token(last.size, last.token_settings,
                               last.price, last.start_amount, last.target_amount, last.curve)]
    /\ UNCHANGED <<overflow_checks, key, fund_state, token_list, curve_data>>

NextWalk ==
    \/ ComputeValueOfSoldToken
    \/ ComputeAmountOfBoughtToken

SpecWalk == InitWalk /\ [][NextWalk]_vars

SellReturned == last.op = "sell" /\ last.result.panic = "none"
BuyReturned == last.op = "buy" /\ last.result.panic = "none"

\* the sale of last walked with the curve flag off: every interval at
\* price.sell_price
SoldAtOraclePrice ==
    compute_value_of_sold_token(last.size,
        [last.token_settings EXCEPT !.use_curve_data = 0],
        last.price, last.start_amount, last.target_amount, last.curve)

\* C16: the sell-leg curve applies only on the away-from-target side: a sale
\* with start_amount + amount <= target_amount is valued at the oracle
\* sell_price over its whole amount, whatever the curve points are and even
\* when the curve is enabled.
C16_NoCurveBelowTarget ==
    (SellReturned /\ last.start_amount + last.size <= last.target_amount)
    => last.result.current_output_value = SoldAtOraclePrice.current_output_value

CurveEnabled == last.token_settings.use_curve_data = USE_CURVE_DATA

\* The sell walk only worsens: the price ends at or below sell_price, stays at
\* sell_price with the curve flag off, and the value returned is at most
\* amount_to_usd(amount, decimals, sell_price).
SellOnlyWorsens ==
    SellReturned
    => /\ last.result.current_price <= last.price.sell_price
       /\ ~CurveEnabled => last.result.current_price = last.price.sell_price
       /\ last.result.current_output_value
            <= amount_to_usd_value(last.size, last.token_settings.decimals,
                                   last.price.sell_price)

\* The buy walk only worsens: the price ends at or above buy_price, stays at
\* buy_price with the curve flag off, and the amount returned is at most
\* usd_to_amount(value, decimals, buy_price).
BuyOnlyWorsens ==
    BuyReturned
    => /\ last.result.current_price >= last.price.buy_price
       /\ ~CurveEnabled => last.result.current_price = last.price.buy_price
       /\ last.result.current_output_amount
            <= usd_value_to_amount(last.size, last.token_settings.decimals,
                                   last.price.buy_price)

\* C17: the curve only worsens the price: the sell walk's price starts at
\* sell_price and never rises, the buy walk's starts at buy_price and never
\* falls; so the sell walk returns at most amount_to_usd(amount, decimals,
\* sell_price) and the buy walk at most usd_to_amount(value, decimals,
\* buy_price); with the curve flag off the price never changes.
C17_CurveOnlyWorsens == SellOnlyWorsens /\ BuyOnlyWorsens

\* C18: the curve walks always complete: for every amount or value, start,
\* target and curve, a walk takes at most 10 curve steps and one terminal
\* step, never reads a curve point of index 10 or more, and returns with the
\* whole input consumed (amount_left = 0, value_left = 0).
C18_WalksComplete ==
    /\ last.op \in {"sell", "buy"}
         => /\ last.result.steps <= NUM_OF_POINTS_IN_CURVE_DATA + 1
            /\ last.result.panic # "index_out_of_bounds"
    /\ SellReturned => last.result.amount_left = 0
    /\ BuyReturned => last.result.value_left = 0

\* C19: every OraclePrice the decoder produces (kind 0, kind 1, any other
\* kind, live or not) satisfies 0 <= sell <= avg <= buy, with
\* sell = avg - base_conf - extra and buy = avg + base_conf + extra, that is,
\* sell and buy at the same distance on either side of avg.
C19_PriceTripletOrdered ==
    OracleReturned
    => LET v == last.result.v IN
       /\ 0 <= v.sell_price
       /\ v.sell_price <= v.avg_price
       /\ v.avg_price <= v.buy_price
       /\ v.avg_price - v.sell_price = v.buy_price - v.avg_price

----------------------------------------------------------------------------
(* The adapter before its first refresh: from_keyed_account followed by    *)
(* quotes and by update() calls that all fail.                             *)

\* a fund of the first two catalogued tokens
PartialFundBlob == FundBlob(<<0, 1>>, <<5000, 2000>>, <<5000, 5000>>, 10000, 5000)

\* Maps whose curve, fund and first oracles decode, and whose last oracle
\* account is missing or cut short.
InterruptedMaps ==
    UNION { { Without(x, OracleAccount(2)), [x EXCEPT ![OracleAccount(2)].len = 227] } :
            x \in { (CURVE_DATA_ADDRESS :> c) @@ (FUND_STATE_ACCOUNT :> PartialFundBlob)
                    @@ OracleBlobsOf(-1) : c \in CurveBlobs } }

FailingMaps == BrokenMaps \cup InterruptedMaps

NextFresh ==
    \/ \E m \in FailingMaps : Update(m)
    \/ \E p \in QuoteParamsSet : Quote(p)

SpecFresh == Init /\ [][NextFresh]_vars

\* C20: no quote before the first refresh: on an adapter built by
\* from_keyed_account from a fund with n_tokens >= 1, as long as no update()
\* has completed, every quote() fails.
C20_NoQuoteBeforeRefresh ==
    /\ UpdateFailed \/ last.op \in {"from_keyed_account", "quote"}
    /\ ~QuoteReturned

====
